---- MODULE Spec2Model ----
(***************************************************************************)
(* paper_query.py: the Semantic Scholar query helper, the SeedPaper object *)
(* and the driver that seeds from a keyword search and snowballs one hop.  *)
(*                                                                         *)
(* Every blocking call of _get is one step.  The remote service and the    *)
(* file system are the environment: each call either fails in transport    *)
(* (connection error, timeout), or delivers a body; the body is decodable  *)
(* JSON or not; the save path can be opened for writing or not.  The       *)
(* service answers one URL with the same body for the whole behaviour; the *)
(* body is chosen when the URL is first answered.                          *)
(***************************************************************************)
EXTENDS Integers, Sequences, FiniteSets, TLC

VARIABLES
    pc,               \* driver position: "search", "seeding", "snowball", "done", "crashed"
    n,                \* argument n of get_top_n_paper_ids
    top_n_save_path,  \* argument save_path of get_top_n_paper_ids
    paper_ids,        \* list returned by get_top_n_paper_ids
    papers,           \* SeedPaper objects constructed so far
    p,                \* index in papers of the SeedPaper being snowballed
    j,                \* position in that paper's references-then-citations walk
    files,            \* file system: save path -> file
    service,          \* remote service: URL -> body it answers with (once known)
    net,              \* "lossy": transport and open() may fail; "reliable": they never do
    clock,            \* total time slept, in tenths of a time unit
    requests,         \* HTTP requests issued by this process
    trace,            \* the _get calls of this process, in order
    last,             \* observation of the latest _get call
    failed,           \* save paths of the calls of this process that returned None
    run,              \* how many times the driver was started
    snapshot          \* files as the previous run of the driver left them

vars == <<pc, n, top_n_save_path, paper_ids, papers, p, j, files, service, net,
          clock, requests, trace, last, failed, run, snapshot>>

----------------------------------------------------------------------------
(* Bounds of the model *)

SeedIds == {"A", "B"}
NeighbourIds == {"C", "D"}
Ids == SeedIds \cup NeighbourIds
MaxData == 2
MaxLinks == 3
MaxN == 6
MaxRuns == 2

(* Program constants *)

TOP_N_PAPERS == 5
Delay == 35
Offset == 10
SEEDING_PAPER_DIR == "seed papers"
SNOWBALLING_PAPER_DIR == "snowballing papers"
QUERY_INFO_BY_KEYWORDS == "url,title,abstract,authors,year,publicationTypes,venue"
QUERY_INFO_ABOUT_A_PAPER ==
    "url,title,abstract,authors,year,publicationTypes,citations,references,citations.fieldsOfStudy"
KEYWORDS == "software+engineering+gender+diversity"
FIELDS_OF_STUDY == "Computer Science"

----------------------------------------------------------------------------
(* Values *)

SeqsUpTo(S, k) == UNION {[1..m -> S] : m \in 0..k}

Entries(ids) == [paperId : ids]

NoJson ==
    [keys |-> {}, data |-> <<>>, citations |-> <<>>, references |-> <<>>]

Distinct(seq) == \A a, b \in 1..Len(seq) : seq[a] = seq[b] => a = b

\* A search result lists each paper once.
SearchJsons ==
    {[keys |-> {"data"}, data |-> d, citations |-> <<>>, references |-> <<>>] :
        d \in {e \in SeqsUpTo(Entries(SeedIds), MaxData) : Distinct(e)}}

PaperJsons(ids, k) ==
    {[keys |-> {"citations", "references"}, data |-> <<>>,
      citations |-> cr[1], references |-> cr[2]] :
        cr \in {x \in SeqsUpTo(Entries(ids), k) \X SeqsUpTo(Entries(ids), k) :
                    Len(x[1]) + Len(x[2]) <= k}}

BadBody == [decodable |-> FALSE, json |-> NoJson]

SearchUrl(limit, keywords, field_of_study) ==
    [endpoint |-> "search", paper_id |-> "", query |-> keywords, offset |-> Offset,
     limit |-> limit, fieldsOfStudy |-> field_of_study, fields |-> QUERY_INFO_BY_KEYWORDS]

PaperUrl(paper_id, query_parameters) ==
    [endpoint |-> "paper", paper_id |-> paper_id, query |-> "", offset |-> 0,
     limit |-> 0, fieldsOfStudy |-> "", fields |-> query_parameters]

Urls ==
    {SearchUrl(m, KEYWORDS, FIELDS_OF_STUDY) : m \in (1..MaxN) \cup {TOP_N_PAPERS}}
    \cup {PaperUrl(i, QUERY_INFO_ABOUT_A_PAPER) : i \in Ids}

\* The corpus is two levels deep: the search lists seed papers, a seed paper cites and
\* is cited by neighbour papers, and the neighbours of a neighbour are left out
\* (snowballing() stores a neighbour's record without reading it).  The corpus holds
\* at most MaxLinks citation and reference entries in all.
Bodies(url) ==
    {BadBody, [decodable |-> TRUE, json |-> NoJson]} \cup
    {[decodable |-> TRUE, json |-> js] :
        js \in IF url.endpoint = "search" THEN SearchJsons
               ELSE IF url.paper_id \in SeedIds THEN PaperJsons(NeighbourIds, MaxLinks)
               ELSE PaperJsons(NeighbourIds, 0)}

NoPath == [dir |-> "", name |-> ""]
TopPath == [dir |-> "output", name |-> "top_5_papers_about_software_engineering_gender_diversity"]
SeedPath(id) == [dir |-> SEEDING_PAPER_DIR, name |-> id]
SnowPath(id) == [dir |-> SNOWBALLING_PAPER_DIR, name |-> id]
Paths ==
    {TopPath} \cup {SeedPath(i) : i \in SeedIds} \cup {SnowPath(i) : i \in NeighbourIds}

NoFile == [exists |-> FALSE, content |-> <<>>]

----------------------------------------------------------------------------
(* The environment of one call *)

Links(json) == Len(json.citations) + Len(json.references)

RECURSIVE LinksOf(_)
LinksOf(ids) ==
    IF ids = {} THEN 0
    ELSE LET i == CHOOSE i \in ids : TRUE
         IN  Links(service[PaperUrl(i, QUERY_INFO_ABOUT_A_PAPER)].body.json)
             + LinksOf(ids \ {i})

Offered(url) ==
    IF service[url].known THEN {service[url].body}
    ELSE {b \in Bodies(url) : LinksOf(SeedIds) + Links(b.json) <= MaxLinks}

Exchanges(url) ==
    {[transport |-> FALSE, openable |-> TRUE, body |-> b] : b \in Offered(url)}
    \cup (IF net = "lossy"
          THEN {[transport |-> TRUE, openable |-> TRUE, body |-> BadBody]}
               \cup {[transport |-> FALSE, openable |-> FALSE, body |-> b] : b \in Offered(url)}
          ELSE {})

\* The body becomes part of the state once the program has decoded it.
Learn(url, save_path, x) ==
    IF x.transport \/ (save_path # NoPath /\ ~x.openable)
    THEN service
    ELSE [service EXCEPT ![url] = [known |-> TRUE, body |-> x.body]]

----------------------------------------------------------------------------
(* SemanticScholarQueryHelper *)

\* open(save_path, 'a') in place of 'w'
OpenAppend(fs, save_path) ==
    [fs EXCEPT ![save_path].exists = TRUE]

OpenW(fs, save_path) ==
    [fs EXCEPT ![save_path] = [exists |-> TRUE, content |-> <<>>]]

JsonDump(fs, save_path, json) ==
    [fs EXCEPT ![save_path].content = Append(@, json)]

\* the except clause re-raising after printing
CaughtReraise(fs, slept) ==
    [raised |-> TRUE, none |-> TRUE, value |-> NoJson, files |-> fs,
     slept |-> slept, requests |-> 1]

Caught(fs, slept) ==
    [raised |-> FALSE, none |-> TRUE, value |-> NoJson, files |-> fs,
     slept |-> slept, requests |-> 1]

Get(url, save_path, x, fs) ==
    IF x.transport
    THEN Caught(fs, 0)
    ELSE IF save_path # NoPath
    THEN IF ~x.openable
         THEN Caught(fs, 0)
         ELSE IF ~x.body.decodable
         THEN Caught(OpenW(fs, save_path), 0)
         ELSE [raised |-> FALSE, none |-> FALSE, value |-> x.body.json,
               files |-> JsonDump(OpenW(fs, save_path), save_path, x.body.json),
               slept |-> Delay, requests |-> 1]
    ELSE IF ~x.body.decodable
         THEN Caught(fs, Delay)
         ELSE [raised |-> FALSE, none |-> FALSE, value |-> x.body.json,
               files |-> fs, slept |-> Delay, requests |-> 1]

\* the identifiers collected back to front
PaperIdsReversed(entries) ==
    [i \in 1..Len(entries) |-> entries[Len(entries) + 1 - i].paperId]

PaperIdsOf(entries) == [i \in 1..Len(entries) |-> entries[i].paperId]

get_top_n_paper_ids(limit, keywords, field_of_study, save_path, x, fs) ==
    LET g == Get(SearchUrl(limit, keywords, field_of_study), save_path, x, fs)
    IN  [call |-> g,
         raised |-> g.raised \/ g.none \/ "data" \notin g.value.keys,
         paper_ids |-> IF g.raised \/ g.none \/ "data" \notin g.value.keys
                       THEN <<>> ELSE PaperIdsOf(g.value.data)]

\* get_metadata refusing to hand None to its caller
get_metadataStrict(paper_id, query_parameters, save_path, x, fs) ==
    LET g == Get(PaperUrl(paper_id, query_parameters), save_path, x, fs)
    IN  [g EXCEPT !.raised = g.none]

get_metadata(paper_id, query_parameters, save_path, x, fs) ==
    Get(PaperUrl(paper_id, query_parameters), save_path, x, fs)

----------------------------------------------------------------------------
(* SeedPaper *)

\* a constructor that reads a missing record as a paper without neighbours
SeedPaperLenient(id, x, fs) ==
    LET g == get_metadata(id, QUERY_INFO_ABOUT_A_PAPER, SeedPath(id), x, fs)
    IN  [call |-> g,
         raised |-> FALSE,
         paper |-> [id |-> id,
                    citations |-> PaperIdsOf(g.value.citations),
                    references |-> PaperIdsOf(g.value.references)]]

SeedPaper(id, x, fs) ==
    LET g == get_metadata(id, QUERY_INFO_ABOUT_A_PAPER, SeedPath(id), x, fs)
        bad == g.raised \/ g.none \/ "citations" \notin g.value.keys
                        \/ "references" \notin g.value.keys
    IN  [call |-> g,
         raised |-> bad,
         paper |-> [id |-> id,
                    citations |-> IF bad THEN <<>> ELSE PaperIdsOf(g.value.citations),
                    references |-> IF bad THEN <<>> ELSE PaperIdsOf(g.value.references)]]

\* the forward loop placed ahead of the backward loop
snowballingForwardFirst(paper) == paper.citations \o paper.references

\* The identifiers snowballing() fetches, in the order it fetches them.
snowballing(paper) == paper.references \o paper.citations

----------------------------------------------------------------------------
(* Driver *)

\* the comprehension walking the identifiers from the end
NextSeedReversed(ids, ps) == ids[Len(ids) - Len(ps)]

NextSeed(ids, ps) == ids[Len(ps) + 1]

SeedingDone(ids, ps) == Len(ps) = Len(ids)

RECURSIVE NextFetch(_, _, _)
NextFetch(ps, q, k) ==
    IF q > Len(ps)
    THEN [pc |-> "done", p |-> Len(ps) + 1, j |-> 1]
    ELSE IF k <= Len(snowballing(ps[q]))
    THEN [pc |-> "snowball", p |-> q, j |-> k]
    ELSE NextFetch(ps, q + 1, 1)

Continue(ids, ps) ==
    IF SeedingDone(ids, ps) THEN NextFetch(ps, 1, 1)
    ELSE [pc |-> "seeding", p |-> 1, j |-> 1]

Outcome(save_path, x) ==
    IF x.transport THEN "transport"
    ELSE IF save_path # NoPath /\ ~x.openable THEN "open"
    ELSE IF ~x.body.decodable THEN "decode"
    ELSE "ok"

FileAt(fs, save_path) == IF save_path = NoPath THEN NoFile ELSE fs[save_path]

NoCall ==
    [phase |-> "none", url |-> PaperUrl("", ""), save_path |-> NoPath, outcome |-> "ok",
     before |-> NoFile, after |-> NoFile, raised |-> FALSE, none |-> FALSE,
     value |-> NoJson, slept |-> 0, requests |-> 0]

\* What one _get call does to the state outside the driver's own variables.
Call(phase, seed, url, save_path, x, g) ==
    /\ files' = g.files
    /\ service' = Learn(url, save_path, x)
    /\ clock' = clock + g.slept
    /\ requests' = requests + g.requests
    /\ trace' = Append(trace, [phase |-> phase, seed |-> seed, url |-> url,
                               save_path |-> save_path])
    /\ last' = [phase |-> phase, url |-> url, save_path |-> save_path,
                outcome |-> Outcome(save_path, x),
                before |-> FileAt(files, save_path), after |-> FileAt(g.files, save_path),
                raised |-> g.raised, none |-> g.none, value |-> g.value,
                slept |-> g.slept, requests |-> g.requests]
    /\ failed' = IF g.none THEN failed \cup {save_path} ELSE failed

DriverSearch ==
    /\ pc = "search"
    /\ \E x \in Exchanges(SearchUrl(n, KEYWORDS, FIELDS_OF_STUDY)) :
        LET r == get_top_n_paper_ids(n, KEYWORDS, FIELDS_OF_STUDY, top_n_save_path, x, files)
            c == Continue(r.paper_ids, <<>>)
        IN  /\ Call("search", 0, SearchUrl(n, KEYWORDS, FIELDS_OF_STUDY),
                    top_n_save_path, x, r.call)
            /\ paper_ids' = r.paper_ids
            /\ pc' = IF r.raised THEN "crashed" ELSE c.pc
            /\ p' = c.p
            /\ j' = c.j
    /\ UNCHANGED <<n, top_n_save_path, papers, net, run, snapshot>>

DriverSeed ==
    /\ pc = "seeding"
    /\ LET id == NextSeed(paper_ids, papers)
       IN  \E x \in Exchanges(PaperUrl(id, QUERY_INFO_ABOUT_A_PAPER)) :
            LET r == SeedPaper(id, x, files)
                ps == IF r.raised THEN papers ELSE Append(papers, r.paper)
                c == Continue(paper_ids, ps)
            IN  /\ Call("seed", 0, PaperUrl(id, QUERY_INFO_ABOUT_A_PAPER),
                        SeedPath(id), x, r.call)
                /\ papers' = ps
                /\ pc' = IF r.raised THEN "crashed" ELSE c.pc
                /\ p' = IF r.raised THEN p ELSE c.p
                /\ j' = IF r.raised THEN j ELSE c.j
    /\ UNCHANGED <<n, top_n_save_path, paper_ids, net, run, snapshot>>

DriverSnowball ==
    /\ pc = "snowball"
    /\ LET id == snowballing(papers[p])[j]
       IN  \E x \in Exchanges(PaperUrl(id, QUERY_INFO_ABOUT_A_PAPER)) :
            LET g == get_metadata(id, QUERY_INFO_ABOUT_A_PAPER, SnowPath(id), x, files)
                c == NextFetch(papers, p, j + 1)
            IN  /\ Call("snowball", p, PaperUrl(id, QUERY_INFO_ABOUT_A_PAPER),
                        SnowPath(id), x, g)
                /\ pc' = IF g.raised THEN "crashed" ELSE c.pc
                /\ p' = IF g.raised THEN p ELSE c.p
                /\ j' = IF g.raised THEN j ELSE c.j
    /\ UNCHANGED <<n, top_n_save_path, paper_ids, papers, net, run, snapshot>>

\* The script is started again: a new process over the files the last one left.
Rerun ==
    /\ pc \in {"done", "crashed"}
    /\ run < MaxRuns
    /\ run' = run + 1
    /\ snapshot' = files
    /\ pc' = "search"
    /\ paper_ids' = <<>>
    /\ papers' = <<>>
    /\ p' = 1
    /\ j' = 1
    /\ clock' = 0
    /\ requests' = 0
    /\ trace' = <<>>
    /\ last' = NoCall
    /\ failed' = {}
    /\ UNCHANGED <<n, top_n_save_path, files, service, net>>

Start(limit, save_path, network) ==
    /\ pc = "search"
    /\ n = limit
    /\ top_n_save_path = save_path
    /\ paper_ids = <<>>
    /\ papers = <<>>
    /\ p = 1
    /\ j = 1
    /\ files = [f \in Paths |-> NoFile]
    /\ service = [u \in Urls |-> [known |-> FALSE, body |-> BadBody]]
    /\ net = network
    /\ clock = 0
    /\ requests = 0
    /\ trace = <<>>
    /\ last = NoCall
    /\ failed = {}
    /\ run = 1
    /\ snapshot = [f \in Paths |-> NoFile]

Init == Start(TOP_N_PAPERS, TopPath, "lossy")

Next == DriverSearch \/ DriverSeed \/ DriverSnowball

Spec == Init /\ [][Next]_vars

\* The driver run repeatedly against a service that is always reachable.
InitRerun == Start(TOP_N_PAPERS, TopPath, "reliable")

NextRerun == DriverSearch \/ DriverSeed \/ DriverSnowball \/ Rerun

RerunSpec == InitRerun /\ [][NextRerun]_vars

\* get_top_n_paper_ids alone, over its arguments.
InitSearch ==
    \E limit \in 1..MaxN : \E save_path \in {NoPath, TopPath} :
        Start(limit, save_path, "lossy")

SearchSpec == InitSearch /\ [][DriverSearch]_vars

----------------------------------------------------------------------------
(* Properties *)

Called == last.phase # "none"

Written(json) == [exists |-> TRUE, content |-> <<json>>]

PhaseCalls(phase) ==
    LET Test(e) == e.phase = phase IN SelectSeq(trace, Test)

SnowCalls(q) ==
    LET Test(e) == e.phase = "snowball" /\ e.seed = q IN SelectSeq(trace, Test)

Expanded(q) == pc = "done" \/ (pc = "snowball" /\ q < p)

IsSubsequence(sub, seq) ==
    \E f \in [1..Len(sub) -> 1..Len(seq)] :
        /\ \A a, b \in 1..Len(sub) : a < b => f[a] < f[b]
        /\ \A a \in 1..Len(sub) : sub[a] = seq[f[a]]

\* C1: a call given a save path leaves at that path exactly the record it returns when
\* it succeeds, and leaves the path as it was (not created, not modified) when it fails.
C1_SaveOnlyAfterDecode ==
    (Called /\ last.save_path # NoPath) =>
        IF last.none THEN last.after = last.before
        ELSE last.after = Written(last.value)

\* C2: every call sleeps the fixed delay exactly once before it returns, failed or
\* not, so the calls made so far have slept at least Delay each.
C2_DelayOnEveryCall ==
    /\ Called => last.slept = Delay
    /\ clock >= Len(trace) * Delay

\* C3: a transport or timeout error is caught in _get: one request was issued, nothing
\* is raised to the caller, and the call returns None.
C3_TransportErrorAbsorbed ==
    /\ (Called /\ last.outcome = "transport") =>
            (~last.raised /\ last.none /\ last.requests = 1)
    /\ requests = Len(trace)

C3_Witness ==
    /\ last.phase = "snowball"
    /\ last.outcome = "transport"
    /\ pc = "snowball"

\* C4: snowballing() of a seed paper fetches its references in list order and then its
\* citations in list order, one call per entry, each saved under the snowballing path
\* of its identifier; a finished expansion made exactly len(references) +
\* len(citations) calls.
C4_SnowballFetches ==
    \A q \in 1..Len(papers) :
        LET got == SnowCalls(q)
            want == papers[q].references \o papers[q].citations
        IN  /\ Len(got) <= Len(want)
            /\ \A i \in 1..Len(got) :
                    /\ got[i].url = PaperUrl(want[i], QUERY_INFO_ABOUT_A_PAPER)
                    /\ got[i].save_path = SnowPath(want[i])
            /\ Expanded(q) => Len(got) = Len(papers[q].references) + Len(papers[q].citations)

C4_Witness ==
    /\ pc = "done"
    /\ \E q \in 1..Len(papers) :
        /\ papers[q].references = <<"C", "D">>
        /\ papers[q].citations = <<"C">>
        /\ Len(SnowCalls(q)) = 3

\* C5: the driver's requests are one search, then one seed fetch per identifier the
\* search returned, in the returned order, and the snowball fetches only after every
\* SeedPaper exists, seed paper after seed paper in construction order.
C5_DriverOrder ==
    /\ \A a \in 1..Len(trace) : (trace[a].phase = "search") = (a = 1)
    /\ \A a, b \in 1..Len(trace) :
            (a < b /\ trace[a].phase = "snowball") =>
                (trace[b].phase = "snowball" /\ trace[a].seed <= trace[b].seed)
    /\ LET seeds == PhaseCalls("seed")
       IN  /\ Len(seeds) <= Len(paper_ids)
           /\ \A i \in 1..Len(seeds) :
                /\ seeds[i].url = PaperUrl(paper_ids[i], QUERY_INFO_ABOUT_A_PAPER)
                /\ seeds[i].save_path = SeedPath(paper_ids[i])
           /\ (PhaseCalls("snowball") # <<>> \/ pc = "done") =>
                (Len(seeds) = Len(paper_ids) /\ Len(papers) = Len(paper_ids))
    /\ \A q \in 1..Len(papers) : papers[q].id = paper_ids[q]

C5_Witness ==
    /\ pc = "done"
    /\ failed = {}
    /\ Len(paper_ids) = 2
    /\ SnowCalls(1) # <<>>
    /\ SnowCalls(2) # <<>>

\* C6: a constructed SeedPaper's citations and references are the paperId values of the
\* response's citation and reference lists, same length, same order, duplicates kept,
\* and they stay so while and after the papers are snowballed.
C6_ListsMatch ==
    \A k \in 1..Len(papers) :
        LET json == service[PaperUrl(papers[k].id, QUERY_INFO_ABOUT_A_PAPER)].body.json
        IN  /\ Len(papers[k].citations) = Len(json.citations)
            /\ \A i \in 1..Len(json.citations) :
                    papers[k].citations[i] = json.citations[i].paperId
            /\ Len(papers[k].references) = Len(json.references)
            /\ \A i \in 1..Len(json.references) :
                    papers[k].references[i] = json.references[i].paperId

\* C6: the lists match the response in every state, and no snowballing step changes them.
C6_ListsFixed ==
    [](C6_ListsMatch) /\ [][pc = "snowball" => papers' = papers]_vars

C6_Witness ==
    /\ pc = "done"
    /\ \E k \in 1..Len(papers) :
        /\ papers[k].citations = <<"D", "C">>
        /\ papers[k].references = <<"D">>
        /\ Len(SnowCalls(k)) = 3

\* C7: a successful get_top_n_paper_ids(n, ...) returns at most n identifiers, in the
\* order of the records of the response's data list.
C7_AtMostN ==
    (last.phase = "search" /\ pc # "crashed") =>
        /\ Len(paper_ids) <= n
        /\ IsSubsequence(paper_ids, PaperIdsOf(last.value.data))

\* C8: against an unchanged, reachable service a further run of the driver leaves
\* every artifact, and the set of artifacts, as the run before left them.
C8_RerunIdempotent ==
    (run >= 2 /\ pc \in {"done", "crashed"}) => files = snapshot

C8_Witness ==
    /\ run = 2
    /\ pc = "done"
    /\ Len(paper_ids) = 2
    /\ \E i \in NeighbourIds : files[SnowPath(i)] = Written(last.value)
    /\ last.phase = "snowball"
    /\ files[TopPath].exists

\* C9: when the search or a seed fetch returns None the run ends there: no step
\* follows, no further SeedPaper is built and no snowball fetch was or will be made.
C9_SeedingFailureAborts ==
    (Called /\ last.phase \in {"search", "seed"} /\ last.none) =>
        /\ pc = "crashed"
        /\ ~ENABLED Next
        /\ PhaseCalls("snowball") = <<>>
        /\ Len(papers) = Len(PhaseCalls("seed")) - (IF last.phase = "seed" THEN 1 ELSE 0)

C9_Witness ==
    /\ pc = "crashed"
    /\ last.phase = "seed"
    /\ last.none
    /\ Len(papers) = 1
    /\ papers[1].references # <<>>

RECURSIVE NeighbourCount(_, _)
NeighbourCount(ps, q) ==
    IF q = 0 THEN 0
    ELSE Len(ps[q].references) + Len(ps[q].citations) + NeighbourCount(ps, q - 1)

\* Snowball fetches still to be made once every SeedPaper exists.
SnowballLeft == NeighbourCount(papers, Len(papers)) - Len(PhaseCalls("snowball"))

\* C10: a failed fetch during snowballing never aborts the run: every reference and
\* citation of every seed paper is still attempted, the driver reaches its end, and an
\* artifact that is not the fresh record belongs to an identifier whose fetch failed.
C10_State ==
    /\ pc = "snowball" => (ENABLED Next /\ SnowballLeft > 0)
    /\ pc = "done" =>
        /\ SnowballLeft = 0
        /\ \A q \in 1..Len(papers) :
            Len(SnowCalls(q)) = Len(papers[q].references) + Len(papers[q].citations)
    /\ \A a \in 1..Len(trace) :
        (trace[a].phase = "snowball" /\ trace[a].save_path \notin failed) =>
            files[trace[a].save_path] = Written(service[trace[a].url].body.json)

\* C10: the state part always holds, and every step taken while snowballing, failed
\* fetch or not, stays in the expansion or ends the run normally with one fetch fewer
\* left to make, so the driver is never stuck and ends after finitely many steps.
C10_SnowballNeverAborts ==
    /\ [](C10_State)
    /\ [][pc = "snowball" =>
            /\ pc' \in {"snowball", "done"}
            /\ SnowballLeft' = SnowballLeft - 1]_vars

C10_Witness ==
    /\ pc = "done"
    /\ Len(papers) = 2
    /\ SnowPath("C") \in failed
    /\ ~files[SnowPath("C")].exists
    /\ last.phase = "snowball"
    /\ last.save_path = SnowPath("D")
    /\ ~last.none
    /\ Len(SnowCalls(1)) >= 1

====
